---- MODULE Spec2Model ----
(***************************************************************************)
(* Model of pg-http-proxy-rs (src/src/main.rs): the bearer-token gate, the *)
(* lazily initialised token set, the parameter binder, the execution       *)
(* dispatcher of POST /exec, the result decoder and the use of the pooled  *)
(* database connections by concurrent requests.                            *)
(*                                                                         *)
(* Text is modelled as a sequence of one-character strings, so that trim,  *)
(* split, starts_with and slicing are computed as the code computes them.  *)
(***************************************************************************)
EXTENDS Integers, Sequences, FiniteSets, TLC

\* ------------------------------------------------------------------ bounds
MaxReqs == 2        \* concurrent requests in the concurrency specification
MaxConns == 1       \* connections the pool may open
MaxEnvLen == 3      \* characters of AUTH_TOKENS
MaxTokLen == 2      \* characters after the scheme in an Authorization header
MaxSqlLen == 2      \* characters of the sql text
MaxParams == 2      \* length of the params array
MaxRows == 2        \* rows a statement yields
MaxCols == 2        \* columns of a row
IntBits == 3        \* the i64 of the model has IntBits value bits (64-bit scaled down)

\* ------------------------------------------------------------------- text
Chars == {"a", "b", " ", ","}
SqlChars == {"S", " ", "\t"}

RECURSIVE SeqsUpTo(_, _)
SeqsUpTo(S, n) ==
    IF n = 0 THEN {<<>>}
    ELSE LET shorter == SeqsUpTo(S, n - 1)
         IN shorter \cup {Append(s, c) : s \in {t \in shorter : Len(t) = n - 1}, c \in S}

IsWhitespace(c) == c \in {" ", "\t", "\n", "\r"}

RECURSIVE TrimStart(_)
TrimStart(s) ==
    IF s # <<>> /\ IsWhitespace(Head(s)) THEN TrimStart(Tail(s)) ELSE s

RECURSIVE TrimEnd(_)
TrimEnd(s) ==
    IF s # <<>> /\ IsWhitespace(s[Len(s)]) THEN TrimEnd(SubSeq(s, 1, Len(s) - 1)) ELSE s

Trim(s) == TrimEnd(TrimStart(s))

\* str::split(','): the pieces between the separators, empty pieces included.
RECURSIVE SplitFrom(_, _, _)
SplitFrom(s, i, cur) ==
    IF i > Len(s) THEN <<cur>>
    ELSE IF s[i] = "," THEN <<cur>> \o SplitFrom(s, i + 1, <<>>)
    ELSE SplitFrom(s, i + 1, Append(cur, s[i]))

Split(s) == SplitFrom(s, 1, <<>>)

StartsWith(s, p) == Len(s) >= Len(p) /\ SubSeq(s, 1, Len(p)) = p

BearerPrefix == <<"B", "e", "a", "r", "e", "r", " ">>

\* ------------------------------------------------------------ environment
EnvUnset == [kind |-> "unset", val |-> <<>>]
EnvNotUnicode == [kind |-> "notunicode", val |-> <<>>]
EnvStr(s) == [kind |-> "str", val |-> s]

\* env::var("AUTH_TOKENS").unwrap_or_else(|_| { warn; "" }): any Err (the
\* variable is unset, or its value is not valid unicode) warns and yields "".
EnvVarIsErr(e) == e.kind # "str"
TokensStr(e) == IF EnvVarIsErr(e) THEN <<>> ELSE e.val

\* split(',').map(trim).filter(non-empty).collect::<HashSet>()
ParseTokensNoFilter(str) ==
    {Trim(Split(str)[i]) : i \in 1..Len(Split(str))}
ParseTokens(str) ==
    {t \in {Trim(Split(str)[i]) : i \in 1..Len(Split(str))} : t # <<>>}

\* -------------------------------------------------------- Authorization
HdrAbsent == [kind |-> "absent", val |-> <<>>]
HdrBytes == [kind |-> "bytes", val |-> <<>>]     \* a value to_str() rejects
HdrText(s) == [kind |-> "text", val |-> s]

AuthOk == [ok |-> TRUE, status |-> 0, msg |-> "admitted"]
AuthErr(st, m) == [ok |-> FALSE, status |-> st, msg |-> m]

\* The request reaches VALID_TOKENS.contains() (and so forces the Lazy) only
\* with a header that is text and starts with "Bearer ".
DerefsTokens(h) == h.kind = "text" /\ StartsWith(h.val, BearerPrefix)

\* &header_str[7..]
TokenOf(h) == SubSeq(h.val, Len(BearerPrefix) + 1, Len(h.val))

FromRequestAnyBearer(h, tokens) ==
    IF h.kind = "absent" THEN AuthErr(401, "Authorization header missing")
    ELSE IF h.kind = "bytes" THEN AuthErr(400, "Invalid header encoding")
    ELSE IF ~StartsWith(h.val, BearerPrefix) THEN AuthErr(401, "Invalid authorization scheme")
    ELSE AuthOk
FromRequest(h, tokens) ==
    IF h.kind = "absent" THEN AuthErr(401, "Authorization header missing")
    ELSE IF h.kind = "bytes" THEN AuthErr(400, "Invalid header encoding")
    ELSE IF ~StartsWith(h.val, BearerPrefix) THEN AuthErr(401, "Invalid authorization scheme")
    ELSE IF TokenOf(h) \in tokens THEN AuthOk
    ELSE AuthErr(401, "Invalid token")

\* ------------------------------------------------------------ JSON values
I64Max == 2 ^ IntBits - 1
I64Min == 0 - (2 ^ IntBits)
U64Max == 2 ^ (IntBits + 1) - 1

\* A number as written in the request body: sign, integer digits, and the
\* fraction part ("none": no '.', "zero": ".0", "nonzero": ".5").
NoLit == [neg |-> FALSE, mag |-> 0, frac |-> "none"]
LitValue(l) == IF l.neg THEN 0 - l.mag ELSE l.mag

\* serde_json's parse of a number into Number's N::{PosInt, NegInt, Float}:
\* a fraction makes a Float; an integer that fits u64 is PosInt; a negative
\* one that fits i64 is NegInt; "-0" and everything out of range are Floats.
ParseNumber(l) ==
    IF l.frac # "none" THEN "Float"
    ELSE IF ~l.neg THEN (IF l.mag <= U64Max THEN "PosInt" ELSE "Float")
    ELSE IF l.mag # 0 /\ 0 - l.mag >= I64Min THEN "NegInt"
    ELSE "Float"

JNull == [t |-> "Null", b |-> FALSE, repr |-> "none", lit |-> NoLit, form |-> "none"]
JBool(b) == [t |-> "Bool", b |-> b, repr |-> "none", lit |-> NoLit, form |-> "none"]
JNumber(l) == [t |-> "Number", b |-> FALSE, repr |-> ParseNumber(l), lit |-> l, form |-> "none"]
JString(f) == [t |-> "String", b |-> FALSE, repr |-> "none", lit |-> NoLit, form |-> f]
JArray == [t |-> "Array", b |-> FALSE, repr |-> "none", lit |-> NoLit, form |-> "none"]
JObject == [t |-> "Object", b |-> FALSE, repr |-> "none", lit |-> NoLit, form |-> "none"]

\* Number::is_i64
IsI64(v) ==
    \/ v.repr = "NegInt"
    \/ v.repr = "PosInt" /\ v.lit.mag <= I64Max

\* The shapes of a JSON string the binder tells apart, by the first chrono
\* format that parses it.
NaiveForms == {"%Y-%m-%d %H:%M:%S", "%Y-%m-%d %H:%M:%S%.f", "%Y-%m-%dT%H:%M:%S", "%Y-%m-%dT%H:%M:%S%.f"}
StringForms == NaiveForms \cup {"rfc3339", "other"}

\* ------------------------------------------------------- Parameter binder
\* A bound argument: the Postgres type it is sent with and the value it
\* carries. "UNTYPED" is Oid(0) (UntypedString), "TEXT" is String's type.
Bound(ty, v) == [ty |-> ty, from |-> v]

BindParam(p) ==
    IF p.t = "String" THEN
        IF p.form \in NaiveForms THEN Bound("TIMESTAMP", p)
        ELSE IF p.form = "rfc3339" THEN Bound("TIMESTAMP", p)
        ELSE Bound("UNTYPED", p)
    ELSE IF p.t = "Number" THEN
        IF IsI64(p) THEN Bound("INT8", p) ELSE Bound("TEXT", p)
    ELSE IF p.t = "Bool" THEN Bound("BOOL", p)
    ELSE Bound("UNTYPED", p)

\* for p in params { q = q.bind(..) }
RECURSIVE BindAll(_, _)
BindAll(params, q) ==
    IF params = <<>> THEN q
    ELSE BindAll(Tail(params), Append(q, BindParam(Head(params))))

\* --------------------------------------------------------- Result decoder
PgTypes == {"timestamptz", "timestamp", "text", "int8", "int4", "float8", "bool",
            "jsonb", "enum", "bytea", "numeric"}

\* pay: what the raw bytes of a non-null cell are. "plain": a value of the
\* type; "nonfinite": a float8 NaN or infinity; "utf8": valid UTF-8 without
\* NUL; "nul": valid UTF-8 holding a NUL; "binary": not UTF-8.
Cell(ty, null, pay) == [ty |-> ty, null |-> null, pay |-> pay]

Pays(ty) ==
    IF ty = "float8" THEN {"plain", "nonfinite"}
    ELSE IF ty \in {"bytea", "numeric"} THEN {"utf8", "nul", "binary"}
    ELSE IF ty \in {"text", "enum"} THEN {"utf8"}
    ELSE {"plain"}

\* Every cell a row can hold: a NULL of any type, or a value of it.
Cells ==
    UNION {{Cell(ty, TRUE, "plain")} \cup {Cell(ty, FALSE, pay) : pay \in Pays(ty)} : ty \in PgTypes}

\* row.try_get::<Option<T>, usize>(idx) is Ok for a NULL cell whatever T is,
\* and otherwise when T is compatible with the column's type.
TryGet(cell, T) == cell.null \/ cell.ty = T

JsonOut(k, via) == [k |-> k, via |-> via]
ConversionError == JsonOut("String", "<<conversion error>>")

Ok(v) == [ok |-> TRUE, v |-> v]
Err(e) == [ok |-> FALSE, v |-> e]

TypedOut(cell, k, via) == IF cell.null THEN JsonOut("Null", "NULL") ELSE JsonOut(k, via)

row_to_value(cell) ==
    IF TryGet(cell, "timestamptz") THEN Ok(TypedOut(cell, "String", "DateTime<Utc>"))
    ELSE IF TryGet(cell, "timestamp") THEN Ok(TypedOut(cell, "String", "NaiveDateTime"))
    ELSE IF TryGet(cell, "text") THEN Ok(TypedOut(cell, "String", "String"))
    ELSE IF TryGet(cell, "int8") THEN Ok(TypedOut(cell, "Number", "i64"))
    ELSE IF TryGet(cell, "int4") THEN Ok(TypedOut(cell, "Number", "i32"))
    ELSE IF TryGet(cell, "float8") THEN
        Ok(TypedOut(cell, "Number", IF cell.pay = "nonfinite" THEN "0" ELSE "f64"))
    ELSE IF TryGet(cell, "bool") THEN Ok(TypedOut(cell, "Bool", "bool"))
    ELSE IF TryGet(cell, "jsonb") THEN Ok(TypedOut(cell, "Json", "Value"))
    ELSE IF cell.pay = "utf8" THEN Ok(JsonOut("String", "raw"))
    ELSE IF cell.ty = "bytea" THEN Ok(JsonOut("String", "bytes"))
    ELSE Ok(JsonOut("Null", "nomatch"))

\* ------------------------------------------------------------- the state
VARIABLES
    server,       \* "boot" | "listening" | "panicked": where main() is
    dbUrl,        \* whether DATABASE_URL is set
    authEnv,      \* the AUTH_TOKENS environment variable
    validTokens,  \* the Lazy VALID_TOKENS: [init, set]
    warnings,     \* how many times the AUTH_TOKENS warning was logged
    req,          \* the requests: inputs, position in the handler, response
    idle          \* the pool's connections no request holds

vars == <<server, dbUrl, authEnv, validTokens, warnings, req, idle>>

Conns == 1..MaxConns

NoResult == [ok |-> FALSE, err |-> "none", rows |-> <<>>]
DbErr(e) == [ok |-> FALSE, err |-> e, rows |-> <<>>]
DbOk(rows) == [ok |-> TRUE, err |-> "", rows |-> rows]
RowNotFound == "no rows returned by a query that expected to return at least one row"

NoBody == [k |-> "none", text |-> "", arg |-> "", rows |-> <<>>]
TextBody(t, a) == [k |-> "text", text |-> t, arg |-> a, rows |-> <<>>]
Row1d(cells) == [k |-> "Row1d", text |-> "", arg |-> "", rows |-> cells]
Rows2d(rows) == [k |-> "Rows2d", text |-> "", arg |-> "", rows |-> rows]

\* A request not yet received.
NewReq ==
    [pc |-> "new", hdr |-> HdrAbsent, admitted |-> FALSE,
     sql |-> <<>>, method |-> "", params |-> <<>>, bound |-> <<>>,
     conn |-> 0, execs |-> 0, result |-> NoResult,
     resps |-> 0, status |-> 0, body |-> NoBody]

\* The request body: JSON that deserialises into ProxyRequest, or not.
BadJson == [json |-> FALSE, sql |-> <<>>, method |-> "", params |-> <<>>]
Json(sql, method, params) == [json |-> TRUE, sql |-> sql, method |-> method, params |-> params]

Respond(rec, status, body) ==
    [rec EXCEPT !.pc = "done", !.status = status, !.body = body, !.resps = @ + 1]

\* --------------------------------------------------------- execute_handler
KnownMethods == {"get", "all", "values", "run", "execute"}

\* The handler up to its first await: the empty-sql guard, the binder, and
\* the dispatch on the method (an unknown one answers without a query).
HandlerStartNoSqlGuard(rec, b) ==
    LET r1 == [rec EXCEPT !.sql = b.sql, !.method = b.method,
                          !.params = b.params]
        r2 == [r1 EXCEPT !.bound = BindAll(b.params, <<>>)]
    IN  IF b.method \in KnownMethods THEN [r2 EXCEPT !.pc = "waiting"]
        ELSE Respond(r2, 400, TextBody("unknown method: ", b.method))
HandlerStart(rec, b) ==
    LET r1 == [rec EXCEPT !.sql = b.sql, !.method = b.method,
                          !.params = b.params]
        r2 == [r1 EXCEPT !.bound = BindAll(b.params, <<>>)]
    IN  IF Trim(b.sql) = <<>> THEN Respond(r1, 400, TextBody("sql must not be empty", ""))
        ELSE IF b.method \in KnownMethods THEN [r2 EXCEPT !.pc = "waiting"]
        ELSE Respond(r2, 400, TextBody("unknown method: ", b.method))

\* What the three fetch strategies make of the database's answer.
fetch_optional(o) ==
    IF ~o.ok THEN Err(o.err)
    ELSE IF o.rows = <<>> THEN Ok(<<<<>>>>)
    ELSE Ok(<<o.rows[1]>>)
fetch_one(o) ==
    IF ~o.ok THEN Err(o.err)
    ELSE IF o.rows = <<>> THEN Err(RowNotFound)
    ELSE Ok(<<o.rows[1]>>)
fetch_all(o) == IF o.ok THEN Ok(o.rows) ELSE Err(o.err)
\* execute() reads no rows: its Ok carries only the count of rows affected.
execute(o) == IF o.ok THEN Ok(Len(o.rows)) ELSE Err(o.err)

\* for (i, _) in row.columns().iter().enumerate() { match row_to_value .. }
RECURSIVE DecodeRowSkipNull(_, _)
DecodeRowSkipNull(row, out) ==
    IF row = <<>> THEN out
    ELSE LET c == row_to_value(Head(row))
         IN DecodeRowSkipNull(Tail(row),
                IF c.ok /\ c.v.k = "Null" THEN out
                ELSE Append(out, IF c.ok THEN c.v ELSE ConversionError))

RECURSIVE DecodeRow(_, _)
DecodeRow(row, out) ==
    IF row = <<>> THEN out
    ELSE LET c == row_to_value(Head(row))
         IN DecodeRow(Tail(row), Append(out, IF c.ok THEN c.v ELSE ConversionError))

RECURSIVE DecodeRows(_, _)
DecodeRows(rows, out) ==
    IF rows = <<>> THEN out
    ELSE DecodeRows(Tail(rows), Append(out, DecodeRow(Head(rows), <<>>)))

RetryOnDbError(rec, e) == [rec EXCEPT !.pc = "waiting"]
DbErrorResponse(rec, e) == Respond(rec, 500, TextBody("DB error: ", e))

\* Ok(_res) => HttpResponse::Ok().json(Rows2d { rows: vec![] })
ExecuteOkWithCount(rec, res) == Respond(rec, 200, Rows2d(<<res>>))
ExecuteOk(rec, res) == Respond(rec, 200, Rows2d(<<>>))

\* The handler after the await, with the database's answer o.
HandlerFinish(rec, o) ==
    LET r1 == [rec EXCEPT !.result = o, !.conn = 0]
    IN  IF rec.method = "get" THEN
            LET f == fetch_one(o)
            IN IF f.ok THEN Respond(r1, 200, Row1d(DecodeRow(f.v[1], <<>>)))
               ELSE DbErrorResponse(r1, f.v)
        ELSE IF rec.method \in {"all", "values"} THEN
            LET f == fetch_all(o)
            IN IF f.ok THEN Respond(r1, 200, Rows2d(DecodeRows(f.v, <<>>)))
               ELSE DbErrorResponse(r1, f.v)
        ELSE
            LET f == execute(o)
            IN IF f.ok THEN ExecuteOk(r1, f.v)
               ELSE DbErrorResponse(r1, f.v)

\* The pool once the fetch future of a request holding connection c is done:
\* the PoolConnection is dropped whatever the outcome.
PoolAfterLeakOnError(pool, c, o) == IF o.ok THEN pool \cup {c} ELSE pool
PoolAfter(pool, c, o) == pool \cup {c}

\* ---------------------------------------------------------------- actions
\* main(): DATABASE_URL must be set, the pool is connected, the server runs.
Boot ==
    /\ server = "boot"
    /\ server' = IF dbUrl THEN "listening" ELSE "panicked"
    /\ idle' = IF dbUrl THEN Conns ELSE {}
    /\ UNCHANGED <<dbUrl, authEnv, validTokens, warnings, req>>

\* A POST /exec arrives: the BearerAuth extractor, then the Json extractor,
\* then execute_handler up to its await.
Receive(r, Hdrs, Bodies) ==
    /\ server = "listening"
    /\ req[r].pc = "new"
    /\ \E h \in Hdrs, b \in Bodies :
        LET force == DerefsTokens(h) /\ ~validTokens.init
            vt == IF force THEN [init |-> TRUE, set |-> ParseTokens(TokensStr(authEnv))]
                  ELSE validTokens
            auth == FromRequest(h, vt.set)
            r0 == [req[r] EXCEPT !.hdr = h]
            r1 == [r0 EXCEPT !.admitted = TRUE]
        IN  /\ validTokens' = vt
            /\ warnings' = IF force /\ EnvVarIsErr(authEnv) THEN warnings + 1 ELSE warnings
            /\ req' = [req EXCEPT ![r] =
                    IF ~auth.ok THEN Respond(r0, auth.status, TextBody(auth.msg, ""))
                    ELSE IF ~b.json THEN Respond(r1, 400, TextBody("Json deserialize error", ""))
                    ELSE HandlerStart(r1, b)]
    /\ UNCHANGED <<server, dbUrl, authEnv, idle>>

\* The pool hands the request a connection and the statement is sent on it.
Acquire(r) ==
    /\ req[r].pc = "waiting"
    /\ idle # {}
    /\ LET c == CHOOSE x \in idle : \A y \in idle : x <= y
       IN /\ idle' = idle \ {c}
          /\ req' = [req EXCEPT ![r].pc = "executing", ![r].conn = c, ![r].execs = @ + 1]
    /\ UNCHANGED <<server, dbUrl, authEnv, validTokens, warnings>>

\* The pool gives up (its acquire timeout, or the database is unreachable).
AcquireFail(r) ==
    /\ req[r].pc = "waiting"
    /\ req' = [req EXCEPT ![r] = DbErrorResponse(@, "pool timed out")]
    /\ UNCHANGED <<server, dbUrl, authEnv, validTokens, warnings, idle>>

\* The database answers: the connection goes back, the rows are decoded and
\* the response is written.
Complete(r, Outcomes) ==
    /\ req[r].pc = "executing"
    /\ \E o \in Outcomes :
        /\ req' = [req EXCEPT ![r] = HandlerFinish(@, o)]
        /\ idle' = PoolAfter(idle, req[r].conn, o)
    /\ UNCHANGED <<server, dbUrl, authEnv, validTokens, warnings>>

\* The response is delivered and the slot serves the next request: the server
\* handles requests for as long as the process lives.
Close(r) ==
    /\ req[r].pc = "done"
    /\ req' = [req EXCEPT ![r] = NewReq]
    /\ UNCHANGED <<server, dbUrl, authEnv, validTokens, warnings, idle>>

InitWith(Envs, n) ==
    /\ server = "boot"
    /\ dbUrl \in BOOLEAN
    /\ authEnv \in Envs
    /\ validTokens = [init |-> FALSE, set |-> {}]
    /\ warnings = 0
    /\ req = [r \in 1..n |-> NewReq]
    /\ idle = {}

\* ------------------------------------------------------- input universes
Bearer(t) == HdrText(BearerPrefix \o t)
TokA == <<"a">>
TokB == <<"b">>
Sql1 == <<"S">>

SomeCell == Cell("int8", FALSE, "plain")
NullCell == Cell("text", TRUE, "plain")

RowsW(C, c) == {row \in SeqsUpTo(C, c) : Len(row) = c}
\* Result sets of up to maxR rows, every row with the same c <= maxC columns.
Grid(C, maxR, maxC) == UNION {SeqsUpTo(RowsW(C, c), maxR) : c \in 1..maxC}

\* Concurrency: few inputs, several requests in flight.
ConcEnvs == {EnvUnset, EnvStr(TokA)}
ConcHdrs == {HdrAbsent, Bearer(TokA), Bearer(TokB)}
ConcBodies ==
    {BadJson} \cup {Json(sql, m, <<>>) : sql \in {Sql1, <<" ">>}, m \in {"get", "all", "run", "frobnicate"}}
ConcOutcomes == {DbErr("syntax error"), DbOk(<<>>), DbOk(<<<<SomeCell>>>>)}

Init == InitWith(ConcEnvs, MaxReqs)
Next ==
    \/ Boot
    \/ \E r \in DOMAIN req : Receive(r, ConcHdrs, ConcBodies)
    \/ \E r \in DOMAIN req : Acquire(r)
    \/ \E r \in DOMAIN req : AcquireFail(r)
    \/ \E r \in DOMAIN req : Complete(r, ConcOutcomes)
    \/ \E r \in DOMAIN req : Close(r)
Spec == Init /\ [][Next]_vars

\* The credential gate: every AUTH_TOKENS and Authorization header over a
\* small alphabet, one request at a time.
AuthEnvs == {EnvUnset, EnvNotUnicode} \cup {EnvStr(s) : s \in SeqsUpTo(Chars, MaxEnvLen)}
Schemes ==
    {BearerPrefix, <<"B", "a", "s", "i", "c", " ">>, <<"b", "e", "a", "r", "e", "r", " ">>,
     <<"B", "e", "a", "r", "e", "r">>, <<>>}
AuthHdrs ==
    {HdrAbsent, HdrBytes} \cup {HdrText(p \o t) : p \in Schemes, t \in SeqsUpTo({"a", "b", " "}, MaxTokLen)}
AuthBodies == {BadJson, Json(Sql1, "all", <<>>)}
AuthOutcomes == {DbErr("syntax error"), DbOk(<<<<SomeCell>>>>)}

InitAuth == InitWith(AuthEnvs, 1)
NextAuth ==
    \/ Boot
    \/ \E r \in DOMAIN req : Receive(r, AuthHdrs, AuthBodies)
    \/ \E r \in DOMAIN req : Acquire(r)
    \/ \E r \in DOMAIN req : AcquireFail(r)
    \/ \E r \in DOMAIN req : Complete(r, AuthOutcomes)
    \/ \E r \in DOMAIN req : Close(r)
SpecAuth == InitAuth /\ [][NextAuth]_vars

\* The dispatcher: every sql text over a small alphabet, every method, and
\* result sets of several rows.
Methods == KnownMethods \cup {"frobnicate", "GET", ""}
ExecEnvs == {EnvStr(TokA)}
ExecHdrs == {HdrAbsent, Bearer(TokA)}
ExecBodies == {Json(sql, m, <<>>) : sql \in SeqsUpTo(SqlChars, MaxSqlLen), m \in Methods}
ExecOutcomes ==
    {DbErr("syntax error"), DbErr("constraint violation")}
        \cup {DbOk(rows) : rows \in Grid({SomeCell, NullCell}, MaxRows, 1)}

InitExec == InitWith(ExecEnvs, 1)
NextExec ==
    \/ Boot
    \/ \E r \in DOMAIN req : Receive(r, ExecHdrs, ExecBodies)
    \/ \E r \in DOMAIN req : Acquire(r)
    \/ \E r \in DOMAIN req : AcquireFail(r)
    \/ \E r \in DOMAIN req : Complete(r, ExecOutcomes)
    \/ \E r \in DOMAIN req : Close(r)
SpecExec == InitExec /\ [][NextExec]_vars

\* The binder: parameter lists over the JSON values it tells apart, with the
\* numbers at the edges of the integer ranges.
Mags == {0, 1, I64Max, I64Max + 1, U64Max, U64Max + 1}
NumberLits == {[neg |-> n, mag |-> m, frac |-> f] : n \in BOOLEAN, m \in Mags, f \in {"none", "zero", "nonzero"}}
BindValues ==
    {JNumber(l) : l \in NumberLits}
        \cup {JNull, JBool(TRUE), JArray, JString("other"), JString("rfc3339"), JString("%Y-%m-%d %H:%M:%S")}
BindBodies == {Json(Sql1, "run", ps) : ps \in SeqsUpTo(BindValues, MaxParams)}
BindOutcomes == {DbErr("syntax error"), DbOk(<<>>)}

InitBind == InitWith(ExecEnvs, 1)
NextBind ==
    \/ Boot
    \/ \E r \in DOMAIN req : Receive(r, ExecHdrs, BindBodies)
    \/ \E r \in DOMAIN req : Acquire(r)
    \/ \E r \in DOMAIN req : AcquireFail(r)
    \/ \E r \in DOMAIN req : Complete(r, BindOutcomes)
    \/ \E r \in DOMAIN req : Close(r)
SpecBind == InitBind /\ [][NextBind]_vars

\* The decoder: one-cell results over every kind of cell, and grids of the
\* cells that take the three ways out of row_to_value.
GridCells == {Cell("numeric", FALSE, "nul"), Cell("float8", FALSE, "nonfinite"), NullCell}
DecodeBodies == {Json(Sql1, m, <<>>) : m \in {"get", "all", "values"}}
DecodeOutcomes ==
    {DbErr("syntax error")}
        \cup {DbOk(<<<<c>>>>) : c \in Cells}
        \cup {DbOk(rows) : rows \in Grid(GridCells, MaxRows, MaxCols)}

InitDecode == InitWith(ExecEnvs, 1)
NextDecode ==
    \/ Boot
    \/ \E r \in DOMAIN req : Receive(r, ExecHdrs, DecodeBodies)
    \/ \E r \in DOMAIN req : Acquire(r)
    \/ \E r \in DOMAIN req : AcquireFail(r)
    \/ \E r \in DOMAIN req : Complete(r, DecodeOutcomes)
    \/ \E r \in DOMAIN req : Close(r)
SpecDecode == InitDecode /\ [][NextDecode]_vars

\* ================================================================ claims
Blank(s) == \A i \in 1..Len(s) : IsWhitespace(s[i])
Reqs == DOMAIN req
InHandler(r) == req[r].pc \in {"waiting", "executing"}
Done(r) == req[r].pc = "done"
\* The database ran the statement of r and answered o.
Answered(r) == Done(r) /\ req[r].execs > 0

\* The header is one the gate lets through, given the token set in force.
GoodHeader(h) ==
    /\ h.kind = "text"
    /\ StartsWith(h.val, BearerPrefix)
    /\ validTokens.init
    /\ SubSeq(h.val, 8, Len(h.val)) \in validTokens.set

\* C1: a statement is run for a request only if its Authorization header is
\* present, is text, starts with "Bearer " and carries a token of the token
\* set; any other request is answered 401 (400 for undecodable bytes) and no
\* statement is executed for it.
C1_GateBeforeSql ==
    \A r \in Reqs :
        /\ (req[r].execs > 0 \/ req[r].admitted \/ InHandler(r)) => GoodHeader(req[r].hdr)
        /\ (req[r].pc # "new" /\ ~GoodHeader(req[r].hdr)) =>
              /\ Done(r)
              /\ req[r].execs = 0
              /\ req[r].result = NoResult
              /\ req[r].status = IF req[r].hdr.kind = "bytes" THEN 400 ELSE 401

C1_Witness ==
    \E r \in Reqs :
        /\ authEnv = EnvStr(<<"b", ",", "a">>)
        /\ req[r].hdr = Bearer(TokA)
        /\ Done(r) /\ req[r].execs = 1 /\ req[r].status = 200

\* AUTH_TOKENS holds no non-empty token: it is unset, unreadable, or made of
\* commas and whitespace only.
NoToken(e) == e.kind # "str" \/ \A i \in 1..Len(e.val) : e.val[i] = "," \/ IsWhitespace(e.val[i])

\* C2: with AUTH_TOKENS absent or holding no non-empty token, the token set
\* is empty and every request is rejected by the gate, "Bearer " with an
\* empty token included.
C2_FailClosed ==
    NoToken(authEnv) =>
        /\ validTokens.set = {}
        /\ \A r \in Reqs :
            /\ ~req[r].admitted
            /\ req[r].execs = 0
            /\ req[r].pc \in {"new", "done"}
            /\ Done(r) => req[r].status \in {400, 401}

C2_Witness ==
    \E r \in Reqs :
        /\ authEnv = EnvStr(<<",", " ">>)
        /\ req[r].hdr = Bearer(<<>>)
        /\ Done(r) /\ req[r].status = 401

\* C3: with AUTH_TOKENS absent, the warning about the empty token set has
\* been logged by the time the server has handled a request, whatever the
\* request carried.
C3_WarnedAtStartup ==
    (authEnv = EnvUnset /\ \E r \in Reqs : req[r].pc # "new") => warnings >= 1

\* C4: an admitted request whose sql is blank or whose method is unknown is
\* answered 400 (naming the method when that is what is wrong) and no
\* statement is sent to the database for it.
C4_RejectedBeforeExecution ==
    \A r \in Reqs :
        (req[r].admitted /\ (Blank(req[r].sql) \/ req[r].method \notin {"get", "all", "values", "run", "execute"})) =>
            /\ Done(r)
            /\ req[r].status = 400
            /\ req[r].execs = 0
            /\ req[r].result = NoResult
            /\ ~Blank(req[r].sql) => req[r].body = TextBody("unknown method: ", req[r].method)

C4_Witness ==
    \E r \in Reqs :
        /\ req[r].admitted /\ Done(r)
        /\ req[r].sql = <<" ", "\t">>
        /\ req[r].method = "get"
        /\ req[r].status = 400

\* C5: a get whose query matches no row ends in 500 with the error text,
\* never in 200; one that matches rows ends in 200 with the cells of one row
\* as a flat sequence.
C5_GetNeedsARow ==
    \A r \in Reqs :
        (Answered(r) /\ req[r].method = "get" /\ req[r].result.ok) =>
            IF req[r].result.rows = <<>>
            THEN /\ req[r].status = 500
                 /\ req[r].body = TextBody("DB error: ", RowNotFound)
            ELSE /\ req[r].status = 200
                 /\ req[r].body.k = "Row1d"
                 /\ Len(req[r].body.rows) = Len(req[r].result.rows[1])
                 /\ \A i \in 1..Len(req[r].body.rows) :
                        req[r].body.rows[i] = row_to_value(req[r].result.rows[1][i]).v

C5_Witness ==
    \E r \in Reqs :
        /\ Answered(r) /\ req[r].method = "get"
        /\ req[r].result = DbOk(<<>>)
        /\ req[r].status = 500

\* C6: a run or execute that the database executes successfully ends in 200
\* with an empty row sequence, whatever rows the statement produced.
C6_RunReturnsNoRows ==
    \A r \in Reqs :
        (Answered(r) /\ req[r].method \in {"run", "execute"} /\ req[r].result.ok) =>
            /\ req[r].status = 200
            /\ req[r].body.k = "Rows2d"
            /\ req[r].body.rows = <<>>

C6_Witness ==
    \E r \in Reqs :
        /\ Answered(r) /\ req[r].method = "execute"
        /\ req[r].result.ok /\ Len(req[r].result.rows) = 2
        /\ req[r].status = 200

\* The number, as written, is an integer of the i64 range (1.0 included).
Representable(l) ==
    /\ l.frac \in {"none", "zero"}
    /\ I64Min <= LitValue(l) /\ LitValue(l) <= I64Max

\* C7: the i-th bound parameter comes from the i-th input; a Number that is
\* an i64 with no fractional part is bound as a 64-bit integer, any other
\* Number as untyped text (the type of the string fallback).
C7_NumberBinding ==
    \A r \in Reqs :
        InHandler(r) =>
            /\ Len(req[r].bound) = Len(req[r].params)
            /\ \A i \in 1..Len(req[r].params) :
                /\ req[r].bound[i].from = req[r].params[i]
                /\ req[r].params[i].t = "Number" =>
                      req[r].bound[i].ty =
                          IF Representable(req[r].params[i].lit) THEN "INT8" ELSE "UNTYPED"

\* What one cell decodes to in the response.
CellOut(c) == IF row_to_value(c).ok THEN row_to_value(c).v ELSE ConversionError
RowOut(row, out) ==
    /\ Len(out) = Len(row)
    /\ \A i \in 1..Len(row) : out[i] = CellOut(row[i])

\* C8: once get, all or values has fetched its rows, the request ends in 200
\* with one decoded cell per column of each fetched row, in column order
\* (the sentinel standing for a cell whose conversion failed).
C8_EveryCellDecoded ==
    \A r \in Reqs :
        (Answered(r) /\ req[r].result.ok) =>
            /\ (req[r].method = "get" /\ req[r].result.rows # <<>>) =>
                  /\ req[r].status = 200
                  /\ RowOut(req[r].result.rows[1], req[r].body.rows)
            /\ req[r].method \in {"all", "values"} =>
                  /\ req[r].status = 200
                  /\ Len(req[r].body.rows) = Len(req[r].result.rows)
                  /\ \A j \in 1..Len(req[r].result.rows) :
                        RowOut(req[r].result.rows[j], req[r].body.rows[j])

C8_Witness ==
    \E r \in Reqs :
        /\ Answered(r) /\ req[r].method = "all" /\ req[r].status = 200
        /\ req[r].result.ok
        /\ Len(req[r].result.rows) = 2
        /\ Len(req[r].body.rows[2]) = 2
        /\ req[r].body.rows[2][1] = JsonOut("Null", "nomatch")
        /\ req[r].body.rows[2][2] = JsonOut("Number", "0")

\* C9: a request makes at most one statement execution and gets exactly one
\* response; a database error ends it with 500 and the error text.
C9_NoRetry ==
    \A r \in Reqs :
        /\ req[r].execs <= 1
        /\ req[r].resps = IF Done(r) THEN 1 ELSE 0
        /\ (Answered(r) /\ ~req[r].result.ok) =>
              /\ req[r].status = 500
              /\ req[r].body = TextBody("DB error: ", req[r].result.err)

C9_Witness ==
    \E r \in Reqs :
        /\ Answered(r) /\ req[r].execs = 1
        /\ req[r].result = DbErr("syntax error")
        /\ req[r].status = 500

Held == {req[r].conn : r \in Reqs} \ {0}

\* C10: a request holds a connection only while its one statement executes,
\* no two requests hold the same one, every connection not held is in the
\* pool, and once all requests have responded none is held.
C10_ConnectionsReturned ==
    /\ \A r \in Reqs : req[r].conn # 0 <=> req[r].pc = "executing"
    /\ \A r \in Reqs : req[r].conn # 0 => req[r].execs = 1
    /\ \A r1, r2 \in Reqs : (r1 # r2 /\ req[r1].conn # 0) => req[r1].conn # req[r2].conn
    /\ server = "listening" => (idle \cap Held = {} /\ idle \cup Held = Conns)
    /\ (server = "listening" /\ \A r \in Reqs : req[r].pc \in {"new", "done"}) => idle = Conns

C10_Witness ==
    \E r1, r2 \in Reqs :
        /\ r1 # r2
        /\ Answered(r1) /\ ~req[r1].result.ok
        /\ req[r2].pc = "executing"
        /\ req[r2].conn \in Conns

====
